---- MODULE Spec2Model ----
(***************************************************************************)
(* Model of the one-click installation engine of pihole-wizard-web:        *)
(*   backend/api/install.py   - start_installation, install_websocket,     *)
(*                              run_installation and the four executors    *)
(*   backend/core/ssh_manager.py - the shared ssh_manager (gateway)        *)
(*   backend/api/ssh.py       - the connect / disconnect / test handlers   *)
(*   backend/core/stats.py    - the install counters                       *)
(*   backend/api/update.py    - the one-click update feature               *)
(* The server is one asyncio event loop: a handler runs atomically from    *)
(* one await (or one yield of the async generator) to the next, so every   *)
(* action below is one such segment.                                       *)
(***************************************************************************)
EXTENDS Integers, Sequences, FiniteSets, TLC

\* ------------------------------------------------------------------ bounds
MaxRequests == 4 \* requests of any kind the clients issue
MaxStarts == 2   \* POST /start requests among them
MaxSubs   == 2   \* websocket connections among them
MaxLines  == 1   \* output lines one streamed command emits
MaxFiles  == 1   \* configuration files generate_all returns
MaxConnects == 2    \* POST /connect requests the gateway specification serves
MaxDisconnects == 1 \* POST /disconnect requests it serves
MaxEmit        == 2 \* lines a streamed command writes
MaxChecks      == 2 \* GET /api/update/check requests the update specification serves
MaxUpdates     == 2 \* POST /api/update/start requests it serves

Starts == 1..MaxStarts
Subs   == 1..MaxSubs
Connects    == 1..MaxConnects
Disconnects == 1..MaxDisconnects
Sessions    == 1..MaxConnects   \* one asyncssh session per connect at most
Updates     == 1..MaxUpdates

\* ------------------------------------------------------------------- state
VARIABLES
    status, progress, current_step, error,  \* _install_status (InstallStatus)
    installs_started, installs_completed,   \* stats.json counters
    connected,      \* ssh_manager.is_connected()
    spc,            \* start_installation: position of each request
    sfile,          \* start_installation: index of the file being uploaded
    sresult,        \* start_installation: what the request returned
    wpc,            \* install_websocket / run_installation: position
    is_remote,      \* run_installation: local is_remote
    gstep,          \* run_installation: index of the step in the for loop
    gimg,           \* pull_images: index of the image in the for loop
    slines,         \* lines the current streamed command has emitted
    received,       \* messages the websocket client has been sent
    gone,           \* a send to the client raised WebSocketDisconnect
    produced,       \* history: items yielded by this subscriber's generator
    early,          \* history: the subscriber attached while status was idle
    pullFailed,     \* history: image whose pull command exited non-zero
    denied,         \* history: the runtime check failed with permission denied
    nAccepted,      \* history: start() requests that passed the busy check
    execCount,      \* history: executor invocations since the last accepted start
    faultStep,      \* history: step of the first executor fault of this run
    nssh,           \* history: POST /connect and /disconnect requests served
    cmd,            \* history: the command the last segment of a driver ran
    is_local,       \* ssh_manager._is_local
    markers,        \* the platform: architecture and the three marker files
    connection,     \* ssh_manager.connection: a session, or 0 for None
    sessions,       \* the asyncssh sessions: unopened, open or closed
    host, username, \* ssh_manager.host, ssh_manager.username
    cpc, csess,     \* connect_ssh: position of each request, session it awaits
    cresult,        \* connect_ssh: what the request returned
    dpc,            \* disconnect_ssh: position of each request
    lastCall,       \* history: the last run / stream / upload call and its outcome
    lastLocal,      \* history: what the last is_running_on_pi() returned
    firstLocal,     \* history: what the first is_running_on_pi() returned
    nprobes,        \* history: times the platform markers were probed
    update_status,  \* update.py: the module-level _update_status dict
    upc,            \* start_update: position of each request and of its task
    ures,           \* start_update: what the request returned
    commands,       \* history: the commands the last segment of an update task ran
    nchecks,        \* history: GET /check requests served
    checked,        \* history: what the last GET /check saw and returned
    polled          \* history: what the GET /status just served returned

installVars == <<status, progress, current_step, error>>
statVars    == <<installs_started, installs_completed>>
startVars   == <<spc, sfile, sresult>>
genVars     == <<wpc, is_remote, gstep, gimg, slines, produced>>
subVars     == <<received, gone, early>>
histVars    == <<pullFailed, denied, nAccepted, execCount, faultStep, nssh>>
\* the ssh_manager in detail, and the requests of api/ssh.py
gwVars      == <<is_local, markers, connection, sessions, host, username,
                 cpc, csess, cresult, dpc, lastCall, lastLocal, firstLocal, nprobes>>
\* everything of the installation engine
engineVars  == <<installVars, statVars, startVars, genVars, subVars, histVars, cmd>>
\* the update feature
updVars     == <<update_status, upc, ures, commands, nchecks, checked, polled>>
vars == <<installVars, statVars, connected, startVars, genVars, subVars, histVars, cmd, gwVars,
          updVars>>

\* --------------------------------------------------------------- constants
\* steps of run_installation: (name, progress)
steps == << [name |-> "Checking Docker...",        progress |-> 10],
            [name |-> "Pulling Docker images...",  progress |-> 40],
            [name |-> "Starting containers...",    progress |-> 70],
            [name |-> "Verifying installation...", progress |-> 90] >>

\* pull_images: the required images
images == << "pihole/pihole:latest", "mvance/unbound:latest" >>

NoError == "None"
NoEvent == [type |-> "none", step |-> 0, text |-> ""]

\* {"type": "log", "message": ...}; step is the step that produced the line
Log(k, text) == [type |-> "log", step |-> k, text |-> text]
\* {"type": "complete", "status": ...}
CompleteEvent(st) == [type |-> "complete", step |-> 0, text |-> st]
\* {"type": "error", "message": "Installation not started"}
ErrorEvent == [type |-> "error", step |-> 0, text |-> "Installation not started"]

\* the last segment ran none of the commands that are recorded
NoCmd == [name |-> "none", by |-> 0, rc |-> 0, form |-> "", out |-> ""]

\* no gateway call has been made yet
NoCall == [op |-> "none", local |-> FALSE, conn |-> FALSE, rc |-> 0,
           kind |-> "none", ran |-> "nowhere", emitted |-> <<>>, lines |-> <<>>]

\* _update_status as the module creates it
NoUpdate == [status |-> "idle", progress |-> 0, current_step |-> "", message |-> "",
             has_existing_install |-> FALSE, current_version |-> "None",
             latest_version |-> "None"]

\* the last segment was not one of an update task
NoCommands == [by |-> 0, run |-> << >>]

\* no GET /check has been served yet
NoCheck == [docker |-> FALSE, found |-> FALSE, dry |-> FALSE,
            has_existing_install |-> FALSE, update_available |-> "absent",
            message |-> ""]

Statuses == {"idle", "running", "success", "failed"}
Terminal == {"success", "failed"}

\* -------------------------------------------------------------------- Init
Init ==
    /\ status = "idle" /\ progress = 0 /\ current_step = "" /\ error = NoError
    /\ installs_started = 0 /\ installs_completed = 0
    /\ connected = FALSE
    /\ spc = [s \in Starts |-> "ready"]
    /\ sfile = [s \in Starts |-> 0]
    /\ sresult = [s \in Starts |-> "none"]
    /\ wpc = [w \in Subs |-> "unattached"]
    /\ is_remote = [w \in Subs |-> FALSE]
    /\ gstep = [w \in Subs |-> 0]
    /\ gimg = [w \in Subs |-> 0]
    /\ slines = [w \in Subs |-> 0]
    /\ received = [w \in Subs |-> << >>]
    /\ gone = [w \in Subs |-> FALSE]
    /\ produced = [w \in Subs |-> << >>]
    /\ early = [w \in Subs |-> FALSE]
    /\ pullFailed = [w \in Subs |-> 0]
    /\ denied = [w \in Subs |-> FALSE]
    /\ nAccepted = 0
    /\ execCount = [k \in 1..4 |-> 0]
    /\ faultStep = 0
    /\ nssh = 0
    /\ cmd = NoCmd
    /\ is_local = "None"
    /\ markers = [arm |-> FALSE, cpuinfo |-> FALSE, model |-> FALSE, os_release |-> FALSE]
    /\ connection = 0
    /\ sessions = [i \in Sessions |-> "unopened"]
    /\ host = "None" /\ username = "None"
    /\ cpc = [c \in Connects |-> "ready"]
    /\ csess = [c \in Connects |-> 0]
    /\ cresult = [c \in Connects |-> "none"]
    /\ dpc = [d \in Disconnects |-> "ready"]
    /\ lastCall = NoCall
    /\ lastLocal = "None" /\ firstLocal = "None"
    /\ nprobes = 0
    /\ update_status = NoUpdate
    /\ upc = [t \in Updates |-> "ready"]
    /\ ures = [t \in Updates |-> "none"]
    /\ commands = NoCommands
    /\ nchecks = 0
    /\ checked = NoCheck
    /\ polled = NoUpdate

\* requests issued so far, and whether the clients may issue one more
Issued ==
    Cardinality({s \in Starts : spc[s] # "ready"})
    + Cardinality({w \in Subs : wpc[w] # "unattached"}) + nssh
MayRequest == Issued < MaxRequests

\* ------------------------------------------------------ start_installation
\* _install_status = InstallStatus(status="running", progress=0, ...)
SetRunning ==
    /\ status' = "running" /\ progress' = 0
    /\ current_step' = "Preparing..." /\ error' = NoError

\* a failure of start() that records no error
SetStartFailed_silent(msg) ==
    /\ status' = "failed" /\ progress' = 0
    /\ current_step' = "Failed to generate configs" /\ error' = NoError

\* except Exception as e: _install_status = InstallStatus(status="failed", ...)
SetStartFailed(msg) ==
    /\ status' = "failed" /\ progress' = 0
    /\ current_step' = "Failed to generate configs" /\ error' = msg

\* increment("installs_started")
increment_started == installs_started' = installs_started + 1

\* increment("installs_completed")
increment_completed == installs_completed' = installs_completed + 1

\* the request returns {"error": str(e)}
StartReturnError(s, msg) ==
    /\ SetStartFailed(msg)
    /\ spc' = [spc EXCEPT ![s] = "returned"]
    /\ sresult' = [sresult EXCEPT ![s] = "error"]
    /\ UNCHANGED <<sfile, statVars>>

\* the request returns {"message": "Installation started", "status": "running"}
StartReturnStarted(s) ==
    /\ increment_started
    /\ spc' = [spc EXCEPT ![s] = "returned"]
    /\ sresult' = [sresult EXCEPT ![s] = "started"]
    /\ UNCHANGED <<sfile, installs_completed>>

\* POST /start up to its first await: the busy check, the switch to running,
\* generate_all and, on a local target, save_all
start_installation(s) ==
    /\ MayRequest
    /\ spc[s] = "ready"
    /\ \A r \in Starts : r < s => spc[r] # "ready"
    /\ IF status = "running"
       THEN /\ spc' = [spc EXCEPT ![s] = "returned"]
            /\ sresult' = [sresult EXCEPT ![s] = "busy"]
            /\ UNCHANGED <<installVars, statVars, sfile, nAccepted, execCount, faultStep>>
       ELSE /\ nAccepted' = nAccepted + 1
            /\ execCount' = [k \in 1..4 |-> 0]
            /\ faultStep' = 0
            /\ \E genOk \in BOOLEAN, saveOk \in BOOLEAN :
                 IF ~genOk
                 THEN StartReturnError(s, "generate_all failed")
                 ELSE IF connected
                 THEN /\ SetRunning
                      /\ spc' = [spc EXCEPT ![s] = "mkdir"]
                      /\ UNCHANGED <<sfile, sresult, statVars>>
                 ELSE IF saveOk
                 THEN /\ SetRunning
                      /\ StartReturnStarted(s)
                 ELSE StartReturnError(s, "save_all failed")
    /\ UNCHANGED <<connected, genVars, subVars, pullFailed, denied, nssh>>
    /\ UNCHANGED <<gwVars, updVars>>
    /\ cmd' = NoCmd

\* await ssh_manager.run_command(f"mkdir -p {remote_dir}/unbound")
start_installation_mkdir(s) ==
    /\ spc[s] = "mkdir"
    /\ IF ~connected
       THEN StartReturnError(s, "Not connected to remote Pi")
       ELSE /\ spc' = [spc EXCEPT ![s] = "upload"]
            /\ sfile' = [sfile EXCEPT ![s] = 1]
            /\ UNCHANGED <<installVars, sresult, statVars>>
    /\ UNCHANGED <<connected, genVars, subVars, histVars>>
    /\ UNCHANGED <<gwVars, updVars>>
    /\ cmd' = NoCmd

\* success, msg = await ssh_manager.upload_file(content, remote_path)
start_installation_upload(s) ==
    /\ spc[s] = "upload"
    /\ \E uploaded \in BOOLEAN :
         IF ~connected \/ ~uploaded
         THEN StartReturnError(s, "Failed to upload")
         ELSE IF sfile[s] < MaxFiles
         THEN /\ sfile' = [sfile EXCEPT ![s] = @ + 1]
              /\ UNCHANGED <<installVars, spc, sresult, statVars>>
         ELSE /\ StartReturnStarted(s)
              /\ UNCHANGED installVars
    /\ UNCHANGED <<connected, genVars, subVars, histVars>>
    /\ UNCHANGED <<gwVars, updVars>>
    /\ cmd' = NoCmd

\* ------------------------------------------------------------- ssh_manager
\* POST /connect succeeding: ssh_manager.connection is an open session
connect_ssh ==
    /\ MayRequest
    /\ ~connected
    /\ connected' = TRUE
    /\ nssh' = nssh + 1
    /\ UNCHANGED <<installVars, statVars, startVars, genVars, subVars>>
    /\ UNCHANGED <<pullFailed, denied, nAccepted, execCount, faultStep>>
    /\ UNCHANGED <<gwVars, updVars>>
    /\ cmd' = NoCmd

\* POST /disconnect, or the session closing: is_connected() turns false
disconnect_ssh ==
    /\ MayRequest
    /\ connected
    /\ connected' = FALSE
    /\ nssh' = nssh + 1
    /\ UNCHANGED <<installVars, statVars, startVars, genVars, subVars>>
    /\ UNCHANGED <<pullFailed, denied, nAccepted, execCount, faultStep>>
    /\ UNCHANGED <<gwVars, updVars>>
    /\ cmd' = NoCmd

\* -------------------------------------------------------- run_installation
\* a send that overtakes the messages sent before it
send_json_unordered(rcv, ev) == <<ev>> \o rcv

\* a send that loses the marker of the image-pull step
send_json_lossy(rcv, ev) ==
    IF ev = Log(2, steps[2].name) THEN rcv ELSE Append(rcv, ev)

\* what websocket.send_json(ev) adds to the messages the client holds
send_json(rcv, ev) == Append(rcv, ev)

\* the send raised WebSocketDisconnect: the handler ends, the generator is
\* never resumed, and nothing of the connection is kept
Dropped(w) ==
    /\ wpc' = [wpc EXCEPT ![w] = "closed"]
    /\ gone' = [gone EXCEPT ![w] = TRUE]
    /\ received' = [received EXCEPT ![w] = << >>]
    /\ produced' = [produced EXCEPT ![w] = << >>]
    /\ gstep' = [gstep EXCEPT ![w] = 0]
    /\ gimg' = [gimg EXCEPT ![w] = 0]
    /\ slines' = [slines EXCEPT ![w] = 0]

\* the generator of subscriber w yields ev and the handler sends it:
\*   async for log_line in run_installation(): await websocket.send_json(...)
\* after which the generator is resumed at label. With the client gone the send
\* raises WebSocketDisconnect: the handler ends and the generator stays
\* suspended at its yield for good. NoEvent: the generator suspends at an
\* await without yielding
Gen(w, label, ev, k, img, n) ==
    \E alive \in BOOLEAN :
      IF ev = NoEvent \/ alive
      THEN /\ wpc' = [wpc EXCEPT ![w] = label]
           /\ received' = [received EXCEPT ![w] = IF ev = NoEvent THEN @ ELSE send_json(@, ev)]
           /\ produced' = [produced EXCEPT ![w] = IF ev = NoEvent THEN @ ELSE Append(@, ev)]
           /\ gstep' = [gstep EXCEPT ![w] = k]
           /\ gimg' = [gimg EXCEPT ![w] = img]
           /\ slines' = [slines EXCEPT ![w] = n]
           /\ UNCHANGED gone
      ELSE Dropped(w)

\* an executor yields ev and suspends at label; InstallStatus is untouched
Yield(w, label, ev) ==
    /\ Gen(w, label, ev, gstep[w], gimg[w], slines[w])
    /\ UNCHANGED <<installVars, faultStep>>

\* except Exception as e: status="failed", progress=_install_status.progress
Raise(w, msg) ==
    /\ status' = "failed" /\ progress' = progress
    /\ current_step' = "Failed" /\ error' = msg
    /\ faultStep' = IF faultStep = 0 THEN gstep[w] ELSE faultStep
    /\ Gen(w, "gen_end", Log(0, msg), gstep[w], gimg[w], slines[w])

\* a step entry that yields the marker without recording the step
StepEntry_unrecorded(w, k) ==
    /\ UNCHANGED <<installVars, faultStep>>
    /\ Gen(w, "exec_begin", Log(k, steps[k].name), k, 0, 0)

\* for step_name, progress, step_func in steps: set current_step and progress,
\* yield the step marker
StepEntry(w, k) ==
    /\ current_step' = steps[k].name
    /\ progress' = steps[k].progress
    /\ UNCHANGED <<status, error, faultStep>>
    /\ Gen(w, "exec_begin", Log(k, steps[k].name), k, 0, 0)

\* the handler of w resumes its generator, which is suspended at label
Resumes(w, label) == wpc[w] = label

Invoke(k) == execCount' = [execCount EXCEPT ![k] = @ + 1]

\* what "docker info 2>&1" can print when it exits non-zero
DockerInfoErrors ==
    { "Cannot connect to the Docker daemon",
      "permission denied while trying to connect to the Docker daemon socket",
      "Got Permission Denied while trying to connect to the Docker daemon socket" }

\* the outputs that carry the permission-denied signature in some case
SignedErrors == DockerInfoErrors \ {"Cannot connect to the Docker daemon"}

\* str.lower() on those outputs
lower(out) ==
    IF out = "Got Permission Denied while trying to connect to the Docker daemon socket"
    THEN "got permission denied while trying to connect to the docker daemon socket"
    ELSE IF out = "Cannot connect to the Docker daemon"
    THEN "cannot connect to the docker daemon"
    ELSE out

\* "permission denied" in text
HasPermissionDenied(text) ==
    text \in { "permission denied while trying to connect to the Docker daemon socket",
               "permission denied while trying to connect to the docker daemon socket",
               "got permission denied while trying to connect to the docker daemon socket" }

\* a signature test that does not fold the case of the output
PermissionDenied_cased(out) == HasPermissionDenied(out)

\* "permission denied" in (stdout + stderr).lower()
PermissionDenied(out) == HasPermissionDenied(lower(out))

\* check_docker(is_remote)
check_docker(w) ==
    /\ Resumes(w, "exec_begin") /\ gstep[w] = 1
    /\ Invoke(1)
    /\ \E rc \in {0, 1}, out \in DockerInfoErrors :
         IF is_remote[w]
         THEN IF ~connected
              THEN /\ Raise(w, "Not connected to remote Pi")
                   /\ UNCHANGED denied
              ELSE IF rc # 0
              THEN /\ denied' = [denied EXCEPT ![w] = out \in SignedErrors]
                   /\ IF PermissionDenied(out)
                      THEN Raise(w, "Docker permission denied. Run: sudo usermod -aG docker $USER && newgrp docker")
                      ELSE Raise(w, "Docker is not running on the remote Pi.")
              ELSE /\ Yield(w, "exec_end", Log(1, "Docker is running on remote Pi."))
                   /\ UNCHANGED denied
         ELSE /\ UNCHANGED denied
              /\ IF rc # 0
                 THEN Raise(w, "Docker is not running. Please start Docker and try again.")
                 ELSE Yield(w, "exec_end", Log(1, "Docker is running."))
    /\ UNCHANGED <<statVars, connected, startVars, is_remote, early>>
    /\ UNCHANGED <<gwVars, updVars>>
    /\ cmd' = NoCmd
    /\ UNCHANGED <<pullFailed, nAccepted, nssh>>

\* yield f"Pulling {image}...\n"
Pulling(i) == Log(2, IF i = 1 THEN "Pulling pihole/pihole:latest..."
                              ELSE "Pulling mvance/unbound:latest...")
\* yield f"Pulled {image}\n"
Pulled(i) == Log(2, IF i = 1 THEN "Pulled pihole/pihole:latest"
                             ELSE "Pulled mvance/unbound:latest")

\* pull_images(is_remote): first iteration up to its first yield
pull_images(w) ==
    /\ Resumes(w, "exec_begin") /\ gstep[w] = 2
    /\ Invoke(2)
    /\ Gen(w, "pull_cmd", Pulling(1), 2, 1, 0)
    /\ UNCHANGED <<installVars, faultStep>>
    /\ UNCHANGED <<statVars, connected, startVars, is_remote, early>>
    /\ UNCHANGED <<gwVars, updVars>>
    /\ cmd' = NoCmd
    /\ UNCHANGED <<pullFailed, denied, nAccepted, nssh>>

\* the pull command is started: run_command_stream(f"docker pull {image}")
\* or create_subprocess_exec("docker", "pull", image)
pull_images_spawn(w) ==
    /\ Resumes(w, "pull_cmd")
    /\ IF is_remote[w] /\ ~connected
       THEN Raise(w, "Not connected to remote Pi")
       ELSE /\ Gen(w, "pull_stream", NoEvent, gstep[w], gimg[w], 0)
            /\ UNCHANGED <<installVars, faultStep>>
    /\ UNCHANGED <<statVars, connected, startVars, is_remote, early>>
    /\ UNCHANGED <<gwVars, updVars>>
    /\ cmd' = NoCmd
    /\ UNCHANGED <<pullFailed, denied, nAccepted, execCount, nssh>>

\* async for line in <the pull command's output>: yield line
pull_images_line(w) ==
    /\ Resumes(w, "pull_stream") /\ gstep[w] = 2
    /\ slines[w] < MaxLines
    /\ Gen(w, "pull_stream", Log(2, "docker pull output"), gstep[w], gimg[w], slines[w] + 1)
    /\ UNCHANGED <<installVars, faultStep>>
    /\ UNCHANGED <<statVars, connected, startVars, is_remote, early>>
    /\ UNCHANGED <<gwVars, updVars>>
    /\ cmd' = NoCmd
    /\ UNCHANGED <<pullFailed, denied, nAccepted, execCount, nssh>>

\* label after f"Pulled {image}\n": the next image, or the executor returns
AfterPulled(i) == IF i < Len(images) THEN "pull_next" ELSE "exec_end"

\* the decision of pull_images after the pull command ended. pullrc is the
\* exit code of the pull command, inspectrc the one of "docker image inspect"
\* (remote only): local targets test process.returncode, remote targets test
\* the inspect command
PullVerdict(remote, pullrc, inspectrc) ==
    IF remote THEN inspectrc = 0 ELSE pullrc = 0

\* the pull command's output ended: process.wait() and the returncode test on
\* a local target, "docker image inspect" on a remote one
pull_images_done(w) ==
    /\ Resumes(w, "pull_stream") /\ gstep[w] = 2
    /\ slines[w] = MaxLines
    /\ IF is_remote[w] /\ ~connected
       THEN /\ Raise(w, "Not connected to remote Pi")
            /\ UNCHANGED pullFailed
       ELSE \E pullrc \in {0, 1}, inspectrc \in {0, 1} :
              \* an image that was just pulled is there to inspect
              /\ pullrc = 0 => inspectrc = 0
              /\ pullFailed' = [pullFailed EXCEPT ![w] = IF pullrc # 0 THEN gimg[w] ELSE @]
              /\ IF PullVerdict(is_remote[w], pullrc, inspectrc)
                 THEN Yield(w, AfterPulled(gimg[w]), Pulled(gimg[w]))
                 ELSE Raise(w, "Failed to pull")
    /\ UNCHANGED <<statVars, connected, startVars, is_remote, early>>
    /\ UNCHANGED <<gwVars, updVars>>
    /\ cmd' = NoCmd
    /\ UNCHANGED <<denied, nAccepted, execCount, nssh>>

\* for image in images: the next iteration up to its first yield
pull_images_next(w) ==
    /\ Resumes(w, "pull_next")
    /\ Gen(w, "pull_cmd", Pulling(gimg[w] + 1), gstep[w], gimg[w] + 1, 0)
    /\ UNCHANGED <<installVars, faultStep>>
    /\ UNCHANGED <<statVars, connected, startVars, is_remote, early>>
    /\ UNCHANGED <<gwVars, updVars>>
    /\ cmd' = NoCmd
    /\ UNCHANGED <<pullFailed, denied, nAccepted, execCount, nssh>>

\* start_containers(is_remote) up to its first yield
start_containers(w) ==
    /\ Resumes(w, "exec_begin") /\ gstep[w] = 3
    /\ Invoke(3)
    /\ Yield(w, "up_cmd", Log(3, "Running docker compose up -d..."))
    /\ UNCHANGED <<statVars, connected, startVars, is_remote, early>>
    /\ UNCHANGED <<gwVars, updVars>>
    /\ cmd' = NoCmd
    /\ UNCHANGED <<pullFailed, denied, nAccepted, nssh>>

\* a selection that uses the current form whatever the probe says
ComposeCmd_current(rc) == "docker compose"

\* compose_cmd = "docker compose" if returncode == 0 else "docker-compose"
ComposeCmd(rc) == IF rc = 0 THEN "docker compose" ELSE "docker-compose"

\* the "docker compose version" probe exits with rc, then the up command is
\* started in the form the probe selects
start_containers_probe(w) ==
    /\ Resumes(w, "up_cmd")
    /\ IF is_remote[w] /\ ~connected
       THEN /\ Raise(w, "Not connected to remote Pi")
            /\ cmd' = NoCmd
       ELSE /\ Gen(w, "up_stream", NoEvent, gstep[w], gimg[w], 0)
            /\ UNCHANGED <<installVars, faultStep>>
            /\ \E rc \in {0, 1} :
                 cmd' = [name |-> "up", by |-> w, rc |-> rc,
                         form |-> ComposeCmd(rc), out |-> ""]
    /\ UNCHANGED <<statVars, connected, startVars, is_remote, early>>
    /\ UNCHANGED <<gwVars, updVars>>
    /\ UNCHANGED <<pullFailed, denied, nAccepted, execCount, nssh>>

\* async for line in <the up command's output>: yield line
start_containers_line(w) ==
    /\ Resumes(w, "up_stream") /\ gstep[w] = 3
    /\ slines[w] < MaxLines
    /\ Gen(w, "up_stream", Log(3, "compose up output"), gstep[w], gimg[w], slines[w] + 1)
    /\ UNCHANGED <<installVars, faultStep>>
    /\ UNCHANGED <<statVars, connected, startVars, is_remote, early>>
    /\ UNCHANGED <<gwVars, updVars>>
    /\ cmd' = NoCmd
    /\ UNCHANGED <<pullFailed, denied, nAccepted, execCount, nssh>>

\* the up command's output ended: process.wait() and the returncode test on a
\* local target; a remote target tests nothing. A session that closed under
\* the remote stream either ends the stream or raises into it. rc is the exit
\* code of the up command.
start_containers_done(w) ==
    /\ Resumes(w, "up_stream") /\ gstep[w] = 3
    /\ slines[w] = MaxLines
    /\ \E rc \in {0, 1}, lost \in BOOLEAN :
         IF is_remote[w]
         THEN IF ~connected /\ lost
              THEN /\ Raise(w, "Connection lost")
                   /\ cmd' = NoCmd
              ELSE /\ Yield(w, "exec_end", Log(3, "Containers started."))
                   /\ cmd' = [name |-> "up exit", by |-> w, rc |-> rc,
                              form |-> "", out |-> ""]
         ELSE /\ cmd' = [name |-> "up exit", by |-> w, rc |-> rc,
                         form |-> "", out |-> ""]
              /\ IF rc # 0
                 THEN Raise(w, "Failed to start containers")
                 ELSE Yield(w, "exec_end", Log(3, "Containers started."))
    /\ UNCHANGED <<statVars, connected, startVars, is_remote, early>>
    /\ UNCHANGED <<gwVars, updVars>>
    /\ UNCHANGED <<pullFailed, denied, nAccepted, execCount, nssh>>

\* verify_installation(is_remote) up to its first yield
verify_installation(w) ==
    /\ Resumes(w, "exec_begin") /\ gstep[w] = 4
    /\ Invoke(4)
    /\ Yield(w, "verify_ps", Log(4, "Checking container status..."))
    /\ UNCHANGED <<statVars, connected, startVars, is_remote, early>>
    /\ UNCHANGED <<gwVars, updVars>>
    /\ cmd' = NoCmd
    /\ UNCHANGED <<pullFailed, denied, nAccepted, nssh>>

\* a "docker ps" that runs on the local machine when the session is gone
verify_installation_ps_fallback(w) ==
    /\ Resumes(w, "verify_ps")
    /\ IF is_remote[w] /\ connected
       THEN Yield(w, "verify_inspect", Log(4, "docker ps output"))
       ELSE /\ Gen(w, "verify_stream", NoEvent, gstep[w], gimg[w], 0)
            /\ UNCHANGED <<installVars, faultStep>>
    /\ UNCHANGED <<statVars, connected, startVars, is_remote, early>>
    /\ UNCHANGED <<gwVars, updVars>>
    /\ cmd' = NoCmd
    /\ UNCHANGED <<pullFailed, denied, nAccepted, execCount, nssh>>

\* await asyncio.sleep(3), then "docker ps": a remote target yields its
\* stdout, a local target starts the process
verify_installation_ps(w) ==
    /\ Resumes(w, "verify_ps")
    /\ IF is_remote[w]
       THEN IF ~connected
            THEN Raise(w, "Not connected to remote Pi")
            ELSE Yield(w, "verify_inspect", Log(4, "docker ps output"))
       ELSE /\ Gen(w, "verify_stream", NoEvent, gstep[w], gimg[w], 0)
            /\ UNCHANGED <<installVars, faultStep>>
    /\ UNCHANGED <<statVars, connected, startVars, is_remote, early>>
    /\ UNCHANGED <<gwVars, updVars>>
    /\ cmd' = NoCmd
    /\ UNCHANGED <<pullFailed, denied, nAccepted, execCount, nssh>>

\* local target: async for line in process.stdout: yield line.decode()
verify_installation_line(w) ==
    /\ Resumes(w, "verify_stream")
    /\ slines[w] < MaxLines
    /\ Gen(w, "verify_stream", Log(4, "docker ps output"), gstep[w], gimg[w], slines[w] + 1)
    /\ UNCHANGED <<installVars, faultStep>>
    /\ UNCHANGED <<statVars, connected, startVars, is_remote, early>>
    /\ UNCHANGED <<gwVars, updVars>>
    /\ cmd' = NoCmd
    /\ UNCHANGED <<pullFailed, denied, nAccepted, execCount, nssh>>

\* what docker inspect -f '{{.State.Running}}' pihole can print
InspectOutputs == {"true\n", "false\n", ""}

\* str.strip() on those outputs
strip(out) ==
    IF out = "true\n" THEN "true"
    ELSE IF out = "false\n" THEN "false"
    ELSE out

\* stdout.strip() != "true" is false
IsRunning(out) == strip(out) = "true"

\* docker inspect -f '{{.State.Running}}' pihole prints out, which is
\* stripped and compared with "true"
verify_installation_inspect(w) ==
    /\ \/ Resumes(w, "verify_inspect")
       \/ Resumes(w, "verify_stream") /\ slines[w] = MaxLines
    /\ IF is_remote[w] /\ ~connected
       THEN /\ Raise(w, "Not connected to remote Pi")
            /\ cmd' = NoCmd
       ELSE \E out \in InspectOutputs :
              /\ cmd' = [name |-> "inspect", by |-> w, rc |-> 0,
                         form |-> "", out |-> out]
              /\ IF ~IsRunning(out)
                 THEN Raise(w, "Pi-hole container is not running")
                 ELSE Yield(w, "exec_end", Log(4, "Pi-hole is running!"))
    /\ UNCHANGED <<statVars, connected, startVars, is_remote, early>>
    /\ UNCHANGED <<gwVars, updVars>>
    /\ UNCHANGED <<pullFailed, denied, nAccepted, execCount, nssh>>

\* the executor returned: the next iteration of the for loop, or, after the
\* last step, status="success", progress=100 and the completion line
run_installation_next(w) ==
    /\ Resumes(w, "exec_end")
    /\ IF gstep[w] < Len(steps)
       THEN /\ StepEntry(w, gstep[w] + 1)
            /\ UNCHANGED statVars
       ELSE /\ status' = "success" /\ progress' = 100
            /\ current_step' = "Complete!" /\ error' = NoError
            /\ increment_completed
            /\ Gen(w, "gen_end", Log(0, "=== Installation Complete! ==="),
                   gstep[w], gimg[w], slines[w])
            /\ UNCHANGED <<installs_started, faultStep>>
    /\ UNCHANGED <<connected, startVars, is_remote, early>>
    /\ UNCHANGED <<gwVars, updVars>>
    /\ cmd' = NoCmd
    /\ UNCHANGED <<pullFailed, denied, nAccepted, execCount, nssh>>

\* ------------------------------------------------------- install_websocket
\* await websocket.accept()
install_websocket(w) ==
    /\ MayRequest
    /\ wpc[w] = "unattached"
    /\ \A v \in Subs : v < w => wpc[v] # "unattached"
    /\ wpc' = [wpc EXCEPT ![w] = "waiting"]
    /\ early' = [early EXCEPT ![w] = (status = "idle")]
    /\ UNCHANGED <<installVars, statVars, connected, startVars, histVars>>
    /\ UNCHANGED <<gwVars, updVars>>
    /\ cmd' = NoCmd
    /\ UNCHANGED <<is_remote, gstep, gimg, slines, produced, received, gone>>

\* a handler that returns on a finished status without telling the client
install_websocket_not_started_silent(w) ==
    /\ wpc[w] = "waiting"
    /\ status \notin {"idle", "running"}
    /\ wpc' = [wpc EXCEPT ![w] = "closed"]
    /\ UNCHANGED <<gstep, gimg, slines, produced, gone, received>>
    /\ UNCHANGED <<installVars, statVars, connected, startVars, histVars>>
    /\ UNCHANGED <<gwVars, updVars>>
    /\ cmd' = NoCmd
    /\ UNCHANGED <<is_remote, early>>

\* while status == "idle": sleep(0.5) has ended with a status that is not
\* running: the "Installation not started" error, then return
install_websocket_not_started(w) ==
    /\ wpc[w] = "waiting"
    /\ status \notin {"idle", "running"}
    /\ \E alive \in BOOLEAN :
         IF alive
         THEN /\ wpc' = [wpc EXCEPT ![w] = "closed"]
              /\ received' = [received EXCEPT ![w] = send_json(@, ErrorEvent)]
              /\ UNCHANGED <<gstep, gimg, slines, produced, gone>>
         ELSE Dropped(w)
    /\ UNCHANGED <<installVars, statVars, connected, startVars, histVars>>
    /\ UNCHANGED <<gwVars, updVars>>
    /\ cmd' = NoCmd
    /\ UNCHANGED <<is_remote, early>>

\* the status is running: async for log_line in run_installation() calls the
\* generator, which reads is_remote and runs to the marker of the first step
run_installation(w) ==
    /\ wpc[w] = "waiting"
    /\ status = "running"
    /\ is_remote' = [is_remote EXCEPT ![w] = connected]
    /\ StepEntry(w, 1)
    /\ UNCHANGED <<statVars, connected, startVars, early>>
    /\ UNCHANGED <<gwVars, updVars>>
    /\ cmd' = NoCmd
    /\ UNCHANGED <<pullFailed, denied, nAccepted, execCount, nssh>>

\* the generator is exhausted: send {"type": "complete", "status": ...}
install_websocket_complete(w) ==
    /\ Resumes(w, "gen_end")
    /\ \E alive \in BOOLEAN :
         IF alive
         THEN /\ wpc' = [wpc EXCEPT ![w] = "closed"]
              /\ received' = [received EXCEPT ![w] = send_json(@, CompleteEvent(status))]
              /\ UNCHANGED <<gstep, gimg, slines, produced, gone>>
         ELSE Dropped(w)
    /\ UNCHANGED <<installVars, statVars, connected, startVars, histVars>>
    /\ UNCHANGED <<gwVars, updVars>>
    /\ cmd' = NoCmd
    /\ UNCHANGED <<is_remote, early>>

\* -------------------------------------------------------------------- Next
\* the segments the event loop runs for a subscriber's handler and generator
Driver(w) ==
    \/ install_websocket_not_started(w)
    \/ run_installation(w)
    \/ check_docker(w)
    \/ pull_images(w)
    \/ pull_images_spawn(w)
    \/ pull_images_line(w)
    \/ pull_images_done(w)
    \/ pull_images_next(w)
    \/ start_containers(w)
    \/ start_containers_probe(w)
    \/ start_containers_line(w)
    \/ start_containers_done(w)
    \/ verify_installation(w)
    \/ verify_installation_ps(w)
    \/ verify_installation_line(w)
    \/ verify_installation_inspect(w)
    \/ run_installation_next(w)
    \/ install_websocket_complete(w)

\* the segments the event loop runs for a start request past its first await
Uploader(s) ==
    \/ start_installation_mkdir(s)
    \/ start_installation_upload(s)

Next ==
    \/ \E s \in Starts : start_installation(s)
    \/ \E s \in Starts : Uploader(s)
    \/ \E w \in Subs : install_websocket(w)
    \/ \E w \in Subs : Driver(w)
    \/ connect_ssh
    \/ disconnect_ssh

Spec == Init /\ [][Next]_vars

\* the event loop runs every handler that is ready; requests, clients and the
\* ssh session come and go as they please
FairSpec ==
    /\ Spec
    /\ \A w \in Subs : WF_vars(Driver(w))
    /\ \A s \in Starts : WF_vars(Uploader(s))

\* ============================================================= ssh_manager
\* The gateway in detail: SSHManager of core/ssh_manager.py and the handlers
\* of api/ssh.py that call it. connect() and disconnect() suspend at their
\* awaits, so requests interleave there. The installation engine stands still
\* in this specification.

\* Optional[bool] as it is stored in _is_local
Opt(b) == IF b THEN "True" ELSE "False"

\* the probe of is_running_on_pi: not an ARM machine, else 'raspberry'/'bcm'
\* in /proc/cpuinfo, else 'raspberry' in /proc/device-tree/model, else
\* 'raspbian'/'raspberry' in /etc/os-release
Probe(m) ==
    IF ~m.arm THEN FALSE
    ELSE IF m.cpuinfo THEN TRUE
    ELSE IF m.model THEN TRUE
    ELSE m.os_release

\* a detection that probes the platform on every call
is_running_on_pi_uncached(ret) ==
    /\ ret = Probe(markers)
    /\ is_local' = Opt(ret)
    /\ nprobes' = IF nprobes < 2 THEN nprobes + 1 ELSE nprobes
    /\ lastLocal' = Opt(ret)
    /\ firstLocal' = IF firstLocal = "None" THEN Opt(ret) ELSE firstLocal

\* ssh_manager.is_running_on_pi() returns ret
is_running_on_pi(ret) ==
    /\ IF is_local # "None"
       THEN /\ ret = (is_local = "True")
            /\ UNCHANGED <<is_local, nprobes>>
       ELSE /\ ret = Probe(markers)
            /\ is_local' = Opt(ret)
            /\ nprobes' = nprobes + 1
    /\ lastLocal' = Opt(ret)
    /\ firstLocal' = IF firstLocal = "None" THEN Opt(ret) ELSE firstLocal

\* the variables is_running_on_pi may change
localVars == <<is_local, nprobes, lastLocal, firstLocal>>

\* ssh_manager.is_connected()
is_connected == connection # 0 /\ sessions[connection] = "open"

\* connected is is_connected() throughout
SyncConnected == connected' = is_connected'

\* one of the platform markers changes under the running process
platform_change ==
    /\ \E f \in {"arm", "cpuinfo", "model", "os_release"} :
         markers' = [markers EXCEPT ![f] = ~@]
    /\ UNCHANGED <<is_local, connection, sessions, host, username, cpc, csess,
                   cresult, dpc, lastCall, lastLocal, firstLocal, nprobes>>
    /\ UNCHANGED <<connected, engineVars, updVars>>

\* the remote end or the network closes an open session
session_lost ==
    /\ \E i \in Sessions :
         /\ sessions[i] = "open"
         /\ sessions' = [sessions EXCEPT ![i] = "closed"]
    /\ UNCHANGED <<is_local, markers, connection, host, username, cpc, csess,
                   cresult, dpc, lastCall, lastLocal, firstLocal, nprobes>>
    /\ SyncConnected
    /\ UNCHANGED <<engineVars, updVars>>

\* GET /status
get_ssh_status ==
    /\ \E local \in BOOLEAN : is_running_on_pi(local)
    /\ UNCHANGED <<markers, connection, sessions, host, username, cpc, csess,
                   cresult, dpc, lastCall>>
    /\ UNCHANGED <<connected, engineVars, updVars>>

\* the hosts and users the connect requests name
hosts == <<"pi1.local", "pi2.local", "pi3.local">>
users == <<"pi", "admin", "root">>
HostOf(c) == hosts[((c - 1) % Len(hosts)) + 1]
UserOf(c) == users[((c - 1) % Len(users)) + 1]

\* a handler that connects whatever the machine is
connect_ssh_never_skips(local) == FALSE

\* connect_ssh: if ssh_manager.is_running_on_pi(): return success
connect_ssh_skips(local) == local

\* SSHManager.connect up to its first await: close the existing connection
\* and wait for it, or go straight to asyncssh.connect
connect(c) ==
    /\ IF connection # 0
       THEN /\ sessions' = [sessions EXCEPT ![connection] = "closed"]
            /\ cpc' = [cpc EXCEPT ![c] = "closing"]
       ELSE /\ cpc' = [cpc EXCEPT ![c] = "connecting"]
            /\ UNCHANGED sessions
    /\ UNCHANGED <<connection, host, username, csess, cresult>>

\* POST /connect up to its first await
connect_request(c) ==
    /\ cpc[c] = "ready"
    /\ \A b \in Connects : b < c => cpc[b] # "ready"
    /\ \E local \in BOOLEAN :
         /\ is_running_on_pi(local)
         /\ IF connect_ssh_skips(local)
            THEN /\ cpc' = [cpc EXCEPT ![c] = "returned"]
                 /\ cresult' = [cresult EXCEPT ![c] = "local"]
                 /\ UNCHANGED <<connection, sessions, host, username, csess>>
            ELSE connect(c)
    /\ UNCHANGED <<markers, dpc, lastCall>>
    /\ SyncConnected
    /\ UNCHANGED <<engineVars, updVars>>

\* await self.connection.wait_closed() has returned: asyncssh.connect is called
connect_wait_closed(c) ==
    /\ cpc[c] = "closing"
    /\ cpc' = [cpc EXCEPT ![c] = "connecting"]
    /\ UNCHANGED <<is_local, markers, connection, sessions, host, username,
                   csess, cresult, dpc, lastCall, lastLocal, firstLocal, nprobes>>
    /\ UNCHANGED <<connected, engineVars, updVars>>

\* self.connection = await asyncssh.connect(...) has returned a session or
\* raised; then host and username are set and the echo test is started
connect_established(c) ==
    /\ cpc[c] = "connecting"
    /\ \E ok \in BOOLEAN :
         IF ok
         THEN LET i == CHOOSE j \in Sessions :
                         /\ sessions[j] = "unopened"
                         /\ \A k \in Sessions : sessions[k] = "unopened" => j <= k
              IN  /\ sessions' = [sessions EXCEPT ![i] = "open"]
                  /\ connection' = i
                  /\ host' = HostOf(c) /\ username' = UserOf(c)
                  /\ csess' = [csess EXCEPT ![c] = i]
                  /\ cpc' = [cpc EXCEPT ![c] = "testing"]
                  /\ UNCHANGED cresult
         ELSE /\ cpc' = [cpc EXCEPT ![c] = "returned"]
              /\ cresult' = [cresult EXCEPT ![c] = "failed"]
              /\ UNCHANGED <<sessions, connection, host, username, csess>>
    /\ UNCHANGED <<is_local, markers, dpc, lastCall, lastLocal, firstLocal, nprobes>>
    /\ SyncConnected
    /\ UNCHANGED <<engineVars, updVars>>

\* await self.connection.run('echo "connected"', check=True) has returned or
\* raised
connect_tested(c) ==
    /\ cpc[c] = "testing"
    /\ \E ok \in BOOLEAN :
         /\ cpc' = [cpc EXCEPT ![c] = "returned"]
         /\ cresult' = [cresult EXCEPT ![c] =
                          IF ok /\ sessions[csess[c]] = "open"
                          THEN "connected" ELSE "failed"]
    /\ UNCHANGED <<is_local, markers, connection, sessions, host, username,
                   csess, dpc, lastCall, lastLocal, firstLocal, nprobes>>
    /\ UNCHANGED <<connected, engineVars, updVars>>

\* POST /disconnect, SSHManager.disconnect up to its await
disconnect(d) ==
    /\ dpc[d] = "ready"
    /\ \A b \in Disconnects : b < d => dpc[b] # "ready"
    /\ IF connection # 0
       THEN /\ sessions' = [sessions EXCEPT ![connection] = "closed"]
            /\ dpc' = [dpc EXCEPT ![d] = "closing"]
       ELSE /\ dpc' = [dpc EXCEPT ![d] = "returned"]
            /\ UNCHANGED sessions
    /\ UNCHANGED <<is_local, markers, connection, host, username, cpc, csess,
                   cresult, lastCall, lastLocal, firstLocal, nprobes>>
    /\ SyncConnected
    /\ UNCHANGED <<engineVars, updVars>>

\* await self.connection.wait_closed() has returned: connection, host and
\* username are set to None
disconnect_wait_closed(d) ==
    /\ dpc[d] = "closing"
    /\ connection' = 0
    /\ host' = "None" /\ username' = "None"
    /\ dpc' = [dpc EXCEPT ![d] = "returned"]
    /\ UNCHANGED <<is_local, markers, sessions, cpc, csess, cresult, lastCall,
                   lastLocal, firstLocal, nprobes>>
    /\ SyncConnected
    /\ UNCHANGED <<engineVars, updVars>>

\* a run_command that raises when the command exits non-zero (check=True)
run_command_checked(local, conn, rc, lost) ==
    IF local THEN [kind |-> IF rc # 0 THEN "raised" ELSE "result", ran |-> "local", rc |-> rc]
    ELSE IF ~conn THEN [kind |-> "raised", ran |-> "nowhere", rc |-> -1]
    ELSE IF lost THEN [kind |-> "raised", ran |-> "remote", rc |-> -1]
    ELSE [kind |-> IF rc # 0 THEN "raised" ELSE "result", ran |-> "remote", rc |-> rc]

\* SSHManager.run_command(command): what the call does for a command that
\* exits with rc where it runs; lost: the session closes under the command
run_command_outcome(local, conn, rc, lost) ==
    IF local THEN [kind |-> "result", ran |-> "local", rc |-> rc]
    ELSE IF ~conn THEN [kind |-> "raised", ran |-> "nowhere", rc |-> -1]
    ELSE IF lost THEN [kind |-> "raised", ran |-> "remote", rc |-> -1]
    ELSE [kind |-> "result", ran |-> "remote", rc |-> rc]

\* SSHManager.run_command_stream(command): the lines of the command, whose
\* exit code is not looked at
run_command_stream_outcome(local, conn, rc, lost) ==
    IF local THEN [kind |-> "lines", ran |-> "local", rc |-> rc]
    ELSE IF ~conn THEN [kind |-> "raised", ran |-> "nowhere", rc |-> -1]
    ELSE IF lost THEN [kind |-> "raised", ran |-> "remote", rc |-> -1]
    ELSE [kind |-> "lines", ran |-> "remote", rc |-> rc]

\* SSHManager.upload_file(content, path): (True, ...) once written, else
\* (False, ...); written: the write itself succeeds
upload_file_outcome(local, conn, written) ==
    IF local
    THEN IF written THEN [kind |-> "written", ran |-> "local", rc |-> 0]
                    ELSE [kind |-> "failure", ran |-> "nowhere", rc |-> 0]
    ELSE IF ~conn THEN [kind |-> "failure", ran |-> "nowhere", rc |-> 0]
    ELSE IF written THEN [kind |-> "written", ran |-> "remote", rc |-> 0]
                    ELSE [kind |-> "failure", ran |-> "nowhere", rc |-> 0]

\* what a process writes while it runs: for each line, in the order of
\* emission, the descriptor it is written to
Emissions == UNION {[1..n -> {"stdout", "stderr"}] : n \in 0..MaxEmit}

\* the lines of an emission, numbered by their position in it
Numbered(em) == [i \in 1..Len(em) |-> [n |-> i, fd |-> em[i]]]

IsStdout(l) == l.fd = "stdout"

IsStderr(l) == l.fd = "stderr"

\* a yielded line: the n-th emitted line, with or without the "[stderr] " prefix
Plain(ls) == [i \in 1..Len(ls) |-> [n |-> ls[i].n, tagged |-> FALSE]]

Tagged(ls) == [i \in 1..Len(ls) |-> [n |-> ls[i].n, tagged |-> TRUE]]

\* on a Pi: stderr=STDOUT, one pipe, every line yielded as it was written
local_lines(em) == Plain(Numbered(em))

\* over SSH: proc.stdout is drained first, then proc.stderr with the prefix
remote_lines(em) ==
    Plain(SelectSeq(Numbered(em), IsStdout)) \o Tagged(SelectSeq(Numbered(em), IsStderr))

\* the record kept of a call
Call(op, local, conn, outcome) ==
    [op |-> op, local |-> local, conn |-> conn, rc |-> outcome.rc,
     kind |-> outcome.kind, ran |-> outcome.ran, emitted |-> <<>>, lines |-> <<>>]

\* what a gateway call leaves alone
CallFrame ==
    /\ UNCHANGED <<markers, connection, sessions, host, username, cpc, csess,
                   cresult, dpc>>
    /\ UNCHANGED <<connected, engineVars, updVars>>

\* await ssh_manager.run_command(command)
run_command ==
    /\ \E local \in BOOLEAN, rc \in {0, 1}, lost \in BOOLEAN :
         /\ is_running_on_pi(local)
         /\ lastCall' = Call("run", local, is_connected,
                             run_command_outcome(local, is_connected, rc, lost))
    /\ CallFrame

\* async for line in ssh_manager.run_command_stream(command)
run_command_stream ==
    /\ \E local \in BOOLEAN, rc \in {0, 1}, lost \in BOOLEAN, em \in Emissions :
         /\ is_running_on_pi(local)
         /\ LET outcome == run_command_stream_outcome(local, is_connected, rc, lost)
            IN  lastCall' = IF outcome.kind = "lines"
                            THEN [Call("stream", local, is_connected, outcome)
                                    EXCEPT !.emitted = em,
                                           !.lines = IF local THEN local_lines(em)
                                                              ELSE remote_lines(em)]
                            ELSE Call("stream", local, is_connected, outcome)
    /\ CallFrame

\* await ssh_manager.upload_file(content, remote_path)
upload_file ==
    /\ \E local \in BOOLEAN, written \in BOOLEAN :
         /\ is_running_on_pi(local)
         /\ lastCall' = Call("upload", local, is_connected,
                             upload_file_outcome(local, is_connected, written))
    /\ CallFrame

\* GET /test: success on a Pi, HTTP 400 without a session, else
\* run_command("hostname")
test_connection ==
    /\ \E local \in BOOLEAN, rc \in {0, 1}, lost \in BOOLEAN :
         /\ is_running_on_pi(local)
         /\ IF local \/ ~is_connected
            THEN UNCHANGED lastCall
            ELSE lastCall' = Call("run", local, is_connected,
                                  run_command_outcome(local, is_connected, rc, lost))
    /\ CallFrame

\* ------------------------------------------------------------- GatewayNext
GatewayNext ==
    \/ platform_change
    \/ session_lost
    \/ get_ssh_status
    \/ \E c \in Connects : connect_request(c)
    \/ \E c \in Connects : connect_wait_closed(c)
    \/ \E c \in Connects : connect_established(c)
    \/ \E c \in Connects : connect_tested(c)
    \/ \E d \in Disconnects : disconnect(d)
    \/ \E d \in Disconnects : disconnect_wait_closed(d)
    \/ run_command
    \/ run_command_stream
    \/ upload_file
    \/ test_connection

GatewaySpec == Init /\ [][GatewayNext]_vars

\* ================================================================== update
\* what the update handlers leave alone
UpdateFrame == UNCHANGED <<connected, engineVars, gwVars>>

\* image tags _get_image_version("pihole/pihole") can return
Versions == {"None", "latest"}

\* check_for_updates, when the dry-run pull is taken to decide
update_available_probed(dry) == dry

\* update_available of check_for_updates; dry: the dry-run pull succeeded
update_available(dry) == TRUE

\* GET /check. docker: docker --version succeeds; dir: a directory with a
\* docker-compose.yml exists; ctr: a pihole/unbound container runs; dry: the
\* dry-run pull succeeds; ver: the tag of the local image. No await: one segment
check_for_updates ==
    /\ nchecks < MaxChecks
    /\ nchecks' = nchecks + 1
    /\ \E docker \in BOOLEAN, dir \in BOOLEAN, ctr \in BOOLEAN, dry \in BOOLEAN,
          ver \in Versions :
         LET looking == [update_status EXCEPT
                           !.status = "checking",
                           !.current_step = "Looking for existing installation..."]
             has_install == dir \/ ctr
         IN  IF ~docker
             THEN /\ update_status' = [looking EXCEPT !.status = "idle"]
                  /\ checked' = [docker |-> FALSE, found |-> FALSE, dry |-> FALSE,
                                 has_existing_install |-> FALSE,
                                 update_available |-> "absent",
                                 message |-> "Docker not found"]
             ELSE IF ~has_install
             THEN /\ update_status' = [looking EXCEPT !.status = "idle",
                                                      !.has_existing_install = FALSE]
                  /\ checked' = [docker |-> TRUE, found |-> FALSE, dry |-> FALSE,
                                 has_existing_install |-> FALSE,
                                 update_available |-> "absent",
                                 message |-> "No existing Pi-hole installation found"]
             ELSE /\ update_status' = [looking EXCEPT
                                         !.current_step = "Checking for newer images...",
                                         !.status = "idle",
                                         !.has_existing_install = TRUE,
                                         !.current_version = ver]
                  /\ checked' = [docker |-> TRUE, found |-> TRUE, dry |-> dry,
                                 has_existing_install |-> TRUE,
                                 update_available |-> Opt(update_available(dry)),
                                 message |-> "Pi-hole installation found"]
    /\ UNCHANGED <<upc, ures>>
    /\ commands' = NoCommands
    /\ polled' = NoUpdate
    /\ UpdateFrame

\* POST /start: HTTP 400 while status is "updating" or when nothing is
\* installed, else status becomes "updating" and the task is created
start_update(t) ==
    /\ upc[t] = "ready"
    /\ \E dir \in BOOLEAN, ctr \in BOOLEAN :
         IF update_status.status = "updating"
         THEN /\ upc' = [upc EXCEPT ![t] = "rejected"]
              /\ ures' = [ures EXCEPT ![t] = "in progress"]
              /\ UNCHANGED update_status
         ELSE IF ~dir /\ ~ctr
         THEN /\ upc' = [upc EXCEPT ![t] = "rejected"]
              /\ ures' = [ures EXCEPT ![t] = "not found"]
              /\ UNCHANGED update_status
         ELSE /\ upc' = [upc EXCEPT ![t] = "created"]
              /\ ures' = [ures EXCEPT ![t] = "started"]
              /\ update_status' = [update_status EXCEPT !.status = "updating",
                                                        !.progress = 0,
                                                        !.message = ""]
    /\ UNCHANGED <<nchecks, checked>>
    /\ commands' = NoCommands
    /\ polled' = NoUpdate
    /\ UpdateFrame

\* a command that was run, and whether it succeeded
Ran(c, ok) == <<[cmd |-> c, ok |-> ok]>>

\* an update that stops the containers before it pulls anything
UpdateCommands_stop_first(pihole, unbound, ex1, down1, down2, ex2, up1, up2) ==
    Ran("docker-compose down", down1) \o Ran("pull pihole", pihole)

\* the commands _perform_update runs up to its sleep. pihole, unbound: the
\* pull succeeds; ex1, ex2: install_path exists at the stop and at the start
\* step; down1, up1: the docker-compose form succeeds; down2, up2: the
\* docker compose form succeeds
UpdateCommands(pihole, unbound, ex1, down1, down2, ex2, up1, up2) ==
    IF ~pihole THEN Ran("pull pihole", FALSE)
    ELSE Ran("pull pihole", TRUE) \o Ran("pull unbound", unbound)
         \o (IF ex1 THEN Ran("docker-compose down", down1) ELSE << >>)
         \o (IF ex1 /\ ~down1 THEN Ran("docker compose down", down2) ELSE << >>)
         \o (IF ex2 THEN Ran("docker-compose up", up1) ELSE << >>)
         \o (IF ex2 /\ ~up1 THEN Ran("docker compose up", up2) ELSE << >>)

\* the exception that ends the first segment, "" for none
UpdateFault(pihole, ex2, up1, up2) ==
    IF ~pihole THEN "Failed to pull Pi-hole image"
    ELSE IF ex2 /\ ~up1 /\ ~up2 THEN "Failed to start containers"
    ELSE ""

\* progress when the first segment ends
UpdateProgress(pihole, ex2, up1, up2) ==
    IF ~pihole THEN 10
    ELSE IF ex2 /\ ~up1 /\ ~up2 THEN 70
    ELSE 90

\* except Exception as e
UpdateFailed(st, msg) ==
    [st EXCEPT !.status = "failed", !.current_step = "Update failed", !.message = msg]

\* _perform_update from its start to await asyncio.sleep(5): subprocess.run
\* blocks the loop, so the pulls, the stop and the start are one segment
perform_update(t) ==
    /\ upc[t] = "created"
    /\ \E pihole \in BOOLEAN, unbound \in BOOLEAN, ex1 \in BOOLEAN,
          down1 \in BOOLEAN, down2 \in BOOLEAN, ex2 \in BOOLEAN,
          up1 \in BOOLEAN, up2 \in BOOLEAN :
         LET fault == UpdateFault(pihole, ex2, up1, up2)
             prog  == UpdateProgress(pihole, ex2, up1, up2)
         IN  /\ commands' = [by |-> t,
                              run |-> UpdateCommands(pihole, unbound, ex1, down1, down2,
                                                     ex2, up1, up2)]
             /\ IF fault # ""
                THEN /\ update_status' =
                          UpdateFailed([update_status EXCEPT !.progress = prog], fault)
                     /\ upc' = [upc EXCEPT ![t] = "done"]
                ELSE /\ update_status' = [update_status EXCEPT
                                            !.progress = prog,
                                            !.current_step = "Verifying update..."]
                     /\ upc' = [upc EXCEPT ![t] = "sleeping"]
    /\ UNCHANGED <<ures, nchecks, checked>>
    /\ polled' = NoUpdate
    /\ UpdateFrame

\* _perform_update after the sleep: ctr: a pihole/unbound container runs
perform_update_verify(t) ==
    /\ upc[t] = "sleeping"
    /\ upc' = [upc EXCEPT ![t] = "done"]
    /\ \E ctr \in BOOLEAN :
         /\ commands' = [by |-> t, run |-> Ran("docker ps", ctr)]
         /\ update_status' =
              IF ctr
              THEN [update_status EXCEPT !.progress = 100,
                                         !.status = "success",
                                         !.current_step = "Update complete!",
                                         !.message = "Successfully updated"]
              ELSE UpdateFailed(update_status, "Containers failed to start after update")
    /\ UNCHANGED <<ures, nchecks, checked>>
    /\ polled' = NoUpdate
    /\ UpdateFrame

\* GET /status
get_update_status ==
    /\ polled' = update_status
    /\ UNCHANGED <<update_status, upc, ures, nchecks, checked>>
    /\ commands' = NoCommands
    /\ UpdateFrame

UpdateNext ==
    \/ check_for_updates
    \/ \E t \in Updates : start_update(t)
    \/ \E t \in Updates : perform_update(t)
    \/ \E t \in Updates : perform_update_verify(t)
    \/ get_update_status

UpdateSpec == Init /\ [][UpdateNext]_vars

\* ================================================================== claims
\* positions at which a subscriber's generator is executing steps
DriverLabels == {"exec_begin", "pull_cmd", "pull_stream", "pull_next", "up_cmd",
                 "up_stream", "verify_ps", "verify_inspect", "verify_stream",
                 "exec_end"}
Driving(w) == wpc[w] \in DriverLabels
Drivers == {w \in Subs : Driving(w)}

\* a start request that passed the busy check and has not returned yet
InFlight(s) == spc[s] \in {"mkdir", "upload"}

\* the step is one in which a start request passes the busy check
AcceptedStart == nAccepted' # nAccepted

IsTerminalEvent(ev) == ev.type \in {"complete", "error"}
TerminalCount(rcv) == Cardinality({i \in 1..Len(rcv) : IsTerminalEvent(rcv[i])})

\* ---- C1
\* C1: a start() that finds status == running returns the busy signal and
\* changes neither InstallState nor the installs_started counter nor starts
\* any upload; and no start() is accepted while another accepted start() has
\* not returned yet.
C1_Rejected ==
    \A s \in Starts :
      (spc[s] = "ready" /\ spc'[s] # "ready" /\ status = "running")
        => /\ sresult'[s] = "busy" /\ spc'[s] = "returned"
           /\ UNCHANGED <<installVars, installs_started>>
C1_OneAccepted == AcceptedStart => ~ \E s \in Starts : InFlight(s)
C1_StartWhileRunning == [][C1_Rejected /\ C1_OneAccepted]_vars

\* ---- C2
\* C2: at no moment is more than one run_installation generator executing
\* steps.
C2_OneDriver == Cardinality(Drivers) <= 1

\* ---- C3
\* C3: from one accepted start() to the next, progress never decreases.
C3_ProgressMonotone == [][~AcceptedStart => progress' >= progress]_vars

\* ---- C4
\* C4: in every state progress is 100 exactly when status is success.
C4_HundredIffSuccess == (progress = 100) <=> (status = "success")

\* ---- C5
\* C5: status changes only idle->running, running->success, running->failed,
\* success->running, failed->running; it enters running only in an accepted
\* start(), never returns to idle, and success/failed stay until the next
\* accepted start(). (A start() that fails before its first await passes
\* through running inside one step.)
C5_Step ==
    IF AcceptedStart
    THEN status # "running" /\ status' \in {"running", "failed"}
    ELSE status' # status => status = "running" /\ status' \in Terminal
C5_StatusTransitions == [][C5_Step]_vars

\* ---- C6
\* C6: once a start() has been accepted and status is running, status
\* eventually becomes success or failed even if no subscriber ever attaches:
\* a run with no subscriber leads to a terminal status, or else to a
\* subscriber attaching.
NoSubscriber == \A w \in Subs : wpc[w] = "unattached"
C6_RunTerminates ==
    [](status = "running" /\ NoSubscriber
         => <>(status \in Terminal \/ ~NoSubscriber))

\* ---- C7
\* C7: a run whose pipeline is being executed ends in success or failed even
\* if subscribers disconnect on the way.
C7_DisconnectHarmless ==
    []((status = "running" /\ Drivers # {}) => <>(status \in Terminal))

\* ---- C8
\* C8: after an executor fault in a run the status is failed, the error is
\* recorded, progress stays at the checkpoint of the faulting step, and no
\* executor is invoked any more in that run.
C8_Frozen ==
    faultStep # 0 => /\ status = "failed" /\ error # NoError
                     /\ progress = steps[faultStep].progress
C8_NoLaterExecutor ==
    (faultStep # 0 /\ ~AcceptedStart) => execCount' = execCount
C8_FaultAborts == []C8_Frozen /\ [][C8_NoLaterExecutor]_vars

\* ---- C9
\* w is the only subscriber there has been, in the only run there has been,
\* whose start() has returned without an error
SoleRun(w) ==
    /\ \A v \in Subs \ {w} : wpc[v] = "unattached"
    /\ nAccepted = 1
    /\ \A s \in Starts : ~InFlight(s) /\ sresult[s] # "error"

\* C9: a driver whose pull command exited non-zero for some image stops in
\* that step: it faults, pulls no later image and yields no line of the
\* container-start or verification step; being the only writer of its run,
\* it leaves status failed with progress 40.
C9_PullFailureStops ==
    \A w \in Subs :
      (pullFailed[w] # 0 /\ ~gone[w]) =>
        /\ wpc[w] \in {"gen_end", "closed"}
        /\ gimg[w] = pullFailed[w]
        /\ gstep[w] = 2
        /\ \A i \in 1..Len(produced[w]) : produced[w][i].step < 3
        /\ SoleRun(w) => status = "failed" /\ progress = 40

\* ---- C10
\* C10: a subscriber that attached while idle and stays connected is sent the
\* items its run yields in the order they were yielded, then exactly one
\* terminal event (complete or error) as the last message, and nothing after.
C10_Ordered(w) ==
    LET rcv == received[w]
        logs == SelectSeq(rcv, LAMBDA ev : ~IsTerminalEvent(ev))
    IN  /\ logs = SubSeq(produced[w], 1, Len(logs))
        /\ TerminalCount(rcv) <= 1
        /\ TerminalCount(rcv) = 1 => /\ IsTerminalEvent(rcv[Len(rcv)])
                                     /\ wpc[w] = "closed"
                                     /\ logs = produced[w]
        /\ wpc[w] = "closed" => TerminalCount(rcv) = 1
C10_OrderedOneTerminal ==
    \A w \in Subs : (early[w] /\ ~gone[w]) => C10_Ordered(w)
C10_Witness ==
    \E w \in Subs :
      /\ early[w] /\ ~gone[w] /\ wpc[w] = "closed"
      /\ Len(received[w]) > Len(steps)
      /\ received[w][Len(received[w])].type = "complete"

\* ---- C11
\* C11: the runtime check (the first step command) of a run is never invoked
\* while the start() of that run is still creating the remote directory or
\* uploading configuration files, a waiting subscriber included.
C11_Step ==
    (execCount'[1] > execCount[1] /\ ~AcceptedStart)
      => ~ \E s \in Starts : InFlight(s)
C11_UploadBeforeSteps == [][C11_Step]_vars

\* ---- C12
\* the step-entry markers among the messages rcv, in the order received
IsMarker(ev) ==
    /\ ev.type = "log" /\ ev.step \in 1..Len(steps)
    /\ ev.text = steps[ev.step].name
Markers(rcv) == SelectSeq(rcv, IsMarker)

\* w attached while idle and stayed connected, no ssh session was ever opened,
\* one start() was accepted, no step faulted and w's subscription has ended
C12_Scenario(w) ==
    /\ early[w] /\ ~gone[w] /\ SoleRun(w)
    /\ nssh = 0 /\ faultStep = 0
    /\ wpc[w] = "closed"

C12_Final ==
    \A w \in Subs :
      C12_Scenario(w) =>
        /\ status = "success" /\ progress = 100
        /\ Markers(received[w]) = [k \in 1..Len(steps) |-> Log(k, steps[k].name)]
        /\ TerminalCount(received[w]) = 1
        /\ received[w][Len(received[w])] = CompleteEvent("success")

\* a driver that yields the marker of step k has set current_step and
\* progress to that step's by then
C12_MarkerStep ==
    \A w \in Subs :
      (/\ Len(produced'[w]) = Len(produced[w]) + 1
       /\ IsMarker(produced'[w][Len(produced'[w])]))
        => LET k == produced'[w][Len(produced'[w])].step
           IN  current_step' = steps[k].name /\ progress' = steps[k].progress

\* C12: local target, every step succeeding, one subscriber attached before
\* start(): the final state is success with progress 100, the subscriber has
\* received exactly the four step markers in the order 10, 40, 70, 90, each
\* yielded with current_step and progress already set to its step, and then
\* exactly one complete event with status success as its last message.
C12_LocalSuccess == []C12_Final /\ [][C12_MarkerStep]_vars
C12_Witness == \E w \in Subs : C12_Scenario(w) /\ installs_completed = 1

\* ---- C13
\* the error messages that contain the remediation command
WithRemediation ==
    {"Docker permission denied. Run: sudo usermod -aG docker $USER && newgrp docker"}

\* C13: remote target whose runtime check exits non-zero with the
\* permission-denied signature, in any case, in its output: the driver stops
\* at step 1 and, being the only writer of its run, leaves status failed,
\* progress 10 and an error that contains the remediation command; no
\* image-pull, container-start or verification executor is invoked.
C13_PermissionDenied ==
    \A w \in Subs :
      (denied[w] /\ ~gone[w] /\ SoleRun(w)) =>
        /\ wpc[w] \in {"gen_end", "closed"}
        /\ status = "failed" /\ progress = 10
        /\ error \in WithRemediation
        /\ faultStep = 1
        /\ \A k \in 2..4 : execCount[k] = 0
C13_Witness ==
    \E w \in Subs : denied[w] /\ ~gone[w] /\ SoleRun(w) /\ is_remote[w]
                    /\ wpc[w] = "closed"

\* ---- C14
\* the status the run driven by w ended with, read off the last item its
\* generator yielded
RunResult(w) ==
    IF produced[w][Len(produced[w])] = Log(0, "=== Installation Complete! ===")
    THEN "success" ELSE "failed"

\* C14: a subscriber that attached while idle and stays connected has been
\* sent nothing before a start() is accepted; it is sent the items of its run
\* in the order they were yielded; and once its run has completed it is sent
\* one complete event, carrying the status that run ended with, as its last
\* message.
C14_IdleSubscriber ==
    \A w \in Subs :
      (early[w] /\ ~gone[w]) =>
        /\ nAccepted = 0 => received[w] = << >>
        /\ SelectSeq(received[w], LAMBDA ev : ~IsTerminalEvent(ev))
             = SubSeq(produced[w], 1, Len(received[w]) - TerminalCount(received[w]))
        /\ (wpc[w] = "closed" /\ produced[w] # << >>) =>
             /\ TerminalCount(received[w]) = 1
             /\ received[w][Len(received[w])] = CompleteEvent(RunResult(w))

\* ---- C15
\* C15: a subscriber that attaches while a run is in progress causes no step
\* executor to be invoked again: with such a subscriber attached, each of the
\* four executors has been invoked at most once since the last accepted
\* start().
C15_LateSubscriber ==
    \A w \in Subs :
      (wpc[w] # "unattached" /\ ~early[w] /\ nAccepted = 1) =>
        \A k \in 1..Len(steps) : execCount[k] <= 1

\* ---- C17
\* the ssh_manager operations that have been issued and have not returned:
\* a start request suspended in run_command (mkdir) or upload_file, and a
\* remote driver whose run_command_stream is still delivering lines
GatewayCalls ==
    {<<"start", s>> : s \in {r \in Starts : InFlight(r)}}
    \cup {<<"driver", w>> : w \in {v \in Subs : is_remote[v] /\ wpc[v] \in {"pull_stream", "up_stream"}}}

\* C17: at no moment are two run/runStreaming/upload operations of the shared
\* ssh_manager in flight together.
C17_OneCommand == Cardinality(GatewayCalls) <= 1

\* ---- C16
\* what is_running_on_pi() has returned is what its first call returned
C16_Same == lastLocal # "None" => lastLocal = firstLocal /\ is_local = firstLocal
\* once the value is cached it stays, and the platform is not probed again
C16_NoReprobe ==
    is_local # "None" => is_local' = is_local /\ nprobes' = nprobes
\* C16: is_running_on_pi() is idempotent: after its first call every call
\* returns the value of the first call without probing the platform again,
\* whatever connect, disconnect, run and upload operations are interleaved and
\* however the platform markers change later.
C16_Idempotent == []C16_Same /\ [][C16_NoReprobe]_vars
\* the cached answer is no longer what a probe would say, a session has been
\* opened and a gateway call has been made
C16_Witness ==
    /\ firstLocal = "False" /\ lastLocal = "False" /\ nprobes = 1
    /\ Probe(markers)
    /\ connection # 0
    /\ lastCall.op # "none"

\* ---- C18
\* C18: a run or stream call whose command exits non-zero returns its result
\* and does not raise; with the target not local and no session active, run
\* and stream raise and run the command nowhere, and upload returns a failure
\* and writes nowhere.
C18_FailureAsData ==
    /\ (lastCall.op \in {"run", "stream"} /\ lastCall.rc > 0)
         => lastCall.kind \in {"result", "lines"}
    /\ (lastCall.op \in {"run", "stream"} /\ ~lastCall.local /\ ~lastCall.conn)
         => lastCall.kind = "raised" /\ lastCall.ran = "nowhere"
    /\ (lastCall.op = "upload" /\ ~lastCall.local /\ ~lastCall.conn)
         => lastCall.kind = "failure" /\ lastCall.ran = "nowhere"
C18_Witness ==
    /\ lastCall.op = "run" /\ ~lastCall.local /\ lastCall.conn
    /\ lastCall.rc = 1 /\ lastCall.kind = "result"

\* ---- C19
OpenSessions == {i \in Sessions : sessions[i] = "open"}
\* C19: after any sequence of connect and disconnect calls, overlapping ones
\* included, at most one session opened by the gateway is open, and an open
\* session is the one ssh_manager.connection refers to.
C19_OneSession ==
    /\ Cardinality(OpenSessions) <= 1
    /\ \A i \in OpenSessions : connection = i

\* ---- C20
\* what is_running_on_pi() returns if called now
WouldBeLocal == is_local = "True" \/ (is_local = "None" /\ Probe(markers))
C20_NoSession ==
    WouldBeLocal => connection = 0 /\ OpenSessions = {} /\ ~is_connected
C20_Frame ==
    \A c \in Connects :
      (cpc[c] = "ready" /\ cpc'[c] # "ready" /\ lastLocal' = "True")
        => /\ cresult'[c] = "local" /\ cpc'[c] = "returned"
           /\ UNCHANGED <<connection, sessions, host, username>>
\* C20: POST /connect on a machine that is_running_on_pi() returns success
\* without connecting and leaves connection, host and username as they were;
\* so whenever is_running_on_pi() would return true there is no session.
C20_LocalNeverConnects == []C20_NoSession /\ [][C20_Frame]_vars
C20_Witness ==
    /\ \E c \in Connects : cresult[c] = "local"
    /\ is_local = "True" /\ connection = 0

\* ---- C21
\* C21: whichever the transport, a driver whose up command exits non-zero
\* faults in the container-start step: the status becomes failed, progress
\* stays where it was (70 for the only driver of the run) and the driver goes
\* to its end without entering the verification step.
C21_Step ==
    (cmd'.name = "up exit" /\ cmd'.rc # 0) =>
      LET w == cmd'.by
      IN  /\ status' = "failed"
          /\ progress' = progress
          /\ SoleRun(w) => progress' = 70
          /\ wpc'[w] \in {"gen_end", "closed"}
C21_UpFailureStops == [][C21_Step]_vars

\* ---- C23
\* C23: the step from the probe to the up command issues one up command, in
\* the form 'docker compose' iff the probe exited 0 and 'docker-compose'
\* otherwise; an up command is issued in no other step, so once per
\* invocation of start_containers.
C23_Step ==
    /\ cmd'.name = "up" =>
         /\ cmd'.form \in {"docker compose", "docker-compose"}
         /\ cmd'.form = "docker compose" <=> cmd'.rc = 0
         /\ wpc[cmd'.by] = "up_cmd" /\ wpc'[cmd'.by] = "up_stream"
    /\ \A w \in Subs :
         (wpc[w] = "up_cmd" /\ wpc'[w] = "up_stream") => cmd'.name = "up" /\ cmd'.by = w
    /\ \A w \in Subs :
         (wpc'[w] = "up_stream" /\ wpc[w] # "up_stream") => wpc[w] = "up_cmd"
C23_ProbeSelectsForm == [][C23_Step]_vars
\* the legacy form was selected and the up command is running
C23_Witness ==
    /\ cmd.name = "up" /\ cmd.rc # 0 /\ cmd.form = "docker-compose"
    /\ wpc[cmd.by] = "up_stream"

\* ---- C24
\* C24: the inspect query decides the run: if its output, stripped, is not
\* 'true' the status becomes failed with progress 90 and the driver ends;
\* a step that sets success is taken by a driver whose own inspect query
\* printed 'true', and the verification executor, which issues the query
\* once, has been invoked once in that run.
C24_Step ==
    /\ (cmd'.name = "inspect" /\ strip(cmd'.out) # "true") =>
         /\ status' = "failed" /\ progress' = 90
         /\ wpc'[cmd'.by] \in {"gen_end", "closed"}
    /\ (status' = "success" /\ status # "success") => execCount[4] = 1
C24_HardVerification == [][C24_Step]_vars

\* ---- C22
\* the start request s persisted its files on the remote host: it is creating
\* the directory or uploading, or has uploaded its last file
StartRemote(s) == InFlight(s) \/ sfile[s] > 0

\* C22: a driver of the only run there has been executes its steps against
\* the target its start() wrote the configuration to: remote if start()
\* uploaded over the ssh session, local if it saved locally, whatever connect
\* and disconnect requests arrived in between.
C22_SameTarget ==
    \A w \in Subs, s \in Starts :
      (Driving(w) /\ nAccepted = 1 /\ (InFlight(s) \/ sresult[s] = "started"))
        => is_remote[w] = StartRemote(s)

\* ---- C25
\* the messages of rcv are in step order, the first message of each step is
\* that step's marker, and the closing line (step 0) comes last
C25_Order(rcv) ==
    /\ \A i, j \in 1..Len(rcv) :
         (i < j /\ rcv[i].step > 0 /\ rcv[j].step > 0) => rcv[i].step <= rcv[j].step
    /\ \A i \in 1..Len(rcv) :
         (rcv[i].step > 0 /\ \A h \in 1..(i - 1) : rcv[h].step # rcv[i].step)
           => /\ IsMarker(rcv[i])
              /\ rcv[i].step = 1 \/ \E h \in 1..(i - 1) : rcv[h].step = rcv[i].step - 1
    /\ \A i \in 1..Len(rcv) :
         (rcv[i].type = "log" /\ rcv[i].step = 0) =>
           \A j \in (i + 1)..Len(rcv) : IsTerminalEvent(rcv[j])
C25_Received ==
    \A w \in Subs :
      ~gone[w] => C25_Order(SelectSeq(received[w], LAMBDA ev : ev.type = "log"))
\* the step that hands marker k to a subscriber's connection leaves
\* current_step and progress at step k's
C25_Delivery ==
    \A w \in Subs :
      (/\ Len(received'[w]) = Len(received[w]) + 1
       /\ IsMarker(received'[w][Len(received'[w])]))
        => LET k == received'[w][Len(received'[w])].step
           IN  current_step' = steps[k].name /\ progress' = steps[k].progress
\* C25: a subscriber receives the events in the order produced; for each step
\* k it receives marker k after every line of step k-1 and before any line
\* of step k, and current_step and progress are step k's when marker k is
\* handed to it.
C25_MarkerFirst == []C25_Received /\ [][C25_Delivery]_vars
C25_Witness ==
    \E w \in Subs :
      /\ ~gone[w] /\ Len(Markers(received[w])) = Len(steps)
      /\ \A k \in 1..Len(steps) :
           \E i \in 1..Len(received[w]) :
             received[w][i].step = k /\ ~IsMarker(received[w][i])

\* ---- C27
\* the positions at which the next segment of a remote driver issues a
\* command on the ssh session
AtGatewayCommand(w) ==
    \/ wpc[w] = "exec_begin" /\ gstep[w] = 1
    \/ wpc[w] \in {"pull_cmd", "up_cmd", "verify_ps", "verify_inspect"}
    \/ wpc[w] = "pull_stream" /\ slines[w] = MaxLines

\* C27: when the session of a remote run is closed, the next command a driver
\* of that run issues on it reports an error: the status becomes failed with
\* 'Not connected to remote Pi' recorded, and the driver goes to its end; it
\* neither succeeds nor continues on the local machine.
C27_Step ==
    \A w \in Subs :
      (is_remote[w] /\ ~connected /\ AtGatewayCommand(w) /\ wpc'[w] # wpc[w])
        => /\ status' = "failed"
           /\ error' = "Not connected to remote Pi"
           /\ wpc'[w] \in {"gen_end", "closed"}
C27_SessionLossFails == [][C27_Step]_vars
\* a remote driver past its first step has failed on the closed session
C27_Witness ==
    \E w \in Subs :
      /\ is_remote[w] /\ ~connected /\ ~gone[w] /\ gstep[w] > 1
      /\ wpc[w] = "gen_end" /\ status = "failed"
      /\ error = "Not connected to remote Pi"

\* ---- C29
\* C29: in every state the error is set exactly when the status is failed:
\* every transition into failed records one, every accepted start() and every
\* successful completion clears it.
C29_ErrorIffFailed == (error # NoError) <=> (status = "failed")
\* a failed start(), then a failed run, each with its error recorded
C29_Witness ==
    /\ status = "failed" /\ error # NoError /\ faultStep # 0
    /\ nAccepted = 2 /\ \E s \in Starts : sresult[s] = "error"

\* ---- C30
\* C30: a start() that fails in generation, in the remote mkdir or in an
\* upload returns an error and leaves status failed, progress 0 and the error
\* recorded; it does not increment installs_started, and no step executor
\* has been invoked for it.
C30_Step ==
    \A s \in Starts :
      (sresult'[s] = "error" /\ sresult[s] # "error") =>
        /\ spc'[s] = "returned"
        /\ status' = "failed" /\ progress' = 0 /\ error' # NoError
        /\ installs_started' = installs_started
        /\ \A k \in 1..Len(steps) : execCount'[k] = 0
C30_FailedStartRunsNothing == [][C30_Step]_vars

\* ---------------------------------------------------------------------- C26
\* C26: a streamed command yields its lines in the order the process wrote
\* them, each stderr line at the position it was written and tagged, the same
\* on a Pi and over SSH.
C26_Expected(em) ==
    [i \in 1..Len(em) |-> [n |-> i, tagged |-> em[i] = "stderr"]]

C26_StreamOrder ==
    (lastCall.op = "stream" /\ lastCall.kind = "lines")
      => lastCall.lines = C26_Expected(lastCall.emitted)

\* ---------------------------------------------------------------------- C28
\* C28: a GET /check that finds an installation (a compose directory or a
\* running pihole/unbound container) answers update_available = true whatever
\* the dry-run pull did, and every GET /check leaves the update status idle.
C28_Step ==
    (nchecks' # nchecks) =>
      /\ update_status'.status = "idle"
      /\ checked'.found =>
            /\ checked'.update_available = "True"
            /\ checked'.has_existing_install
            /\ update_status'.has_existing_install

C28_AlwaysAvailable == [][C28_Step]_vars

\* an installation was found, the dry-run pull failed, the answer is still
\* "available", and the status is idle although an update task is under way
C28_Witness ==
    /\ checked.found /\ ~checked.dry /\ checked.update_available = "True"
    /\ update_status.status = "idle"
    /\ \E t \in Updates : upc[t] = "sleeping"

\* ---------------------------------------------------------------------- C31
\* C31: a subscriber that finds the status success or failed, on attach or
\* when its idle wait ends, is sent exactly one error event and its
\* subscription ends; it executes no step, runs no command and leaves the
\* installation status as it was.
C31_Step ==
    \A w \in Subs :
      (wpc[w] = "waiting" /\ status \in Terminal /\ wpc'[w] # "waiting") =>
        /\ wpc'[w] = "closed"
        /\ ~gone'[w] => received'[w] = <<ErrorEvent>>
        /\ produced'[w] = << >> /\ gstep'[w] = 0
        /\ execCount' = execCount /\ cmd' = NoCmd /\ lastCall' = lastCall
        /\ UNCHANGED <<status, progress, current_step, error>>
        /\ UNCHANGED <<installs_started, installs_completed>>

C31_FinishedStatusRejected == [][C31_Step]_vars

\* one subscriber that waited through a run and one that attached after it,
\* both turned away with the error
C31_Witness ==
    /\ status \in Terminal
    /\ \E w \in Subs : early[w] /\ wpc[w] = "closed" /\ received[w] = <<ErrorEvent>>
    /\ \E w \in Subs : ~early[w] /\ wpc[w] = "closed" /\ received[w] = <<ErrorEvent>>

\* ---------------------------------------------------------------------- C32
\* C32: the install counters stay consistent with the runs: a start() is
\* counted once when it is accepted and has reached the pipeline, a run is
\* counted as completed at most once, so in every reachable state no more
\* completions than starts have been counted.
C32_CountersConsistent ==
    /\ installs_completed <= installs_started
    /\ installs_started = Cardinality({s \in Starts : sresult[s] = "started"})

\* ---------------------------------------------------------------------- C33
\* C33: the result of SSHManager.connect agrees with the session state: when
\* it returns failure, is_connected() is false right afterwards; when it
\* returns success, is_connected() is true and host and username are the
\* arguments of that call.
C33_Step ==
    \A c \in Connects :
      (cresult'[c] # cresult[c]) =>
        /\ cresult'[c] = "failed" => ~is_connected'
        /\ cresult'[c] = "connected" =>
              /\ is_connected'
              /\ host' = HostOf(c) /\ username' = UserOf(c)

C33_ResultAgrees == [][C33_Step]_vars

\* ---------------------------------------------------------------------- C34
\* C34: the gateway never reports the identity of a session that is not
\* active: after every step of a connect or a disconnect call, if
\* is_connected() is false then the recorded host and username are null.
C34_Step ==
    (cpc' # cpc \/ dpc' # dpc) =>
      (~is_connected' => (host' = "None" /\ username' = "None"))

C34_NoStaleIdentity == [][C34_Step]_vars

\* ---------------------------------------------------------------------- C35
\* update tasks that have been created and have not finished
ActiveUpdates == {t \in Updates : upc[t] \in {"created", "sleeping"}}

\* C35: at most one update task is active at a time: a start_update that
\* arrives while a started update task has not finished is rejected and
\* leaves the update status as it is, whatever check, start and status
\* requests are interleaved with the task.
C35_Step ==
    /\ Cardinality(ActiveUpdates') <= 1
    /\ \A t \in Updates :
         (upc[t] = "ready" /\ upc'[t] # "ready" /\ ActiveUpdates # {}) =>
           /\ upc'[t] = "rejected"
           /\ update_status' = update_status

C35_OneUpdateTask == [][C35_Step]_vars

\* ---------------------------------------------------------------------- C36
\* C36: while an update task is in progress the update status stays
\* "updating", and only an update task that ends moves it, to success or to
\* failed; a GET /check during the update does not change the status.
C36_Step ==
    (ActiveUpdates # {} /\ update_status.status = "updating") =>
      \/ update_status'.status = "updating"
      \/ /\ update_status'.status \in {"success", "failed"}
         /\ \E t \in ActiveUpdates : upc'[t] = "done"

C36_StatusHeldWhileUpdating == [][C36_Step]_vars

\* ---------------------------------------------------------------------- C37
\* the checkpoints of an update
UpdateCheckpoints == {0, 10, 30, 50, 70, 90, 100}

\* C37: the update progress only takes the values 0, 10, 30, 50, 70, 90, 100,
\* an update task never lowers it, success implies progress 100 in every
\* state, and a task that fails sets failed and leaves progress at the last
\* value reached.
C37_Step ==
    /\ update_status'.progress \in UpdateCheckpoints
    /\ update_status'.status = "success" => update_status'.progress = 100
    /\ \A t \in Updates :
         (upc[t] \in {"created", "sleeping"} /\ upc'[t] # upc[t]) =>
           /\ update_status'.progress >= update_status.progress
           /\ (upc[t] = "sleeping" /\ update_status'.status = "failed") =>
                update_status'.progress = update_status.progress

C37_ProgressCheckpoints == [][C37_Step]_vars

\* ---------------------------------------------------------------------- C38
\* the commands that stop the containers
DownCommands == {"docker-compose down", "docker compose down"}

\* C38: an update task never stops the containers unless its pull of the
\* pihole image succeeded: a failed pihole pull ends the update as failed
\* with no down command run, while a failed unbound pull is tolerated and the
\* task goes on to the stop and start steps.
C38_Step ==
    \A t \in Updates :
      (upc[t] = "created" /\ upc'[t] # "created") =>
        LET run == commands'.run
        IN  /\ commands'.by = t
            /\ run[1].cmd = "pull pihole"
            /\ \A i \in 1..Len(run) :
                 run[i].cmd \in DownCommands => (i > 1 /\ run[1].ok)
            /\ ~run[1].ok =>
                 /\ Len(run) = 1
                 /\ upc'[t] = "done"
                 /\ update_status'.status = "failed"
            /\ (run[1].ok /\ ~run[2].ok) =>
                 /\ run[2].cmd = "pull unbound"
                 /\ update_status'.progress >= 70
                 /\ upc'[t] = "done" =>
                      run[Len(run)] = [cmd |-> "docker compose up", ok |-> FALSE]

C38_NoStopBeforePull == [][C38_Step]_vars

\* a task whose pihole pull failed has ended the update as failed at progress
\* 10, having run nothing else
C38_Witness ==
    /\ commands.by # 0
    /\ commands.run = Ran("pull pihole", FALSE)
    /\ upc[commands.by] = "done"
    /\ update_status.status = "failed" /\ update_status.progress = 10

====
